---- MODULE Spec2Model ----
(***************************************************************************)
(* State-machine model of the CPlusPlusLogging::Logger singleton           *)
(* (src/GenericLogger/Logger.h, src/GenericLogger/Logger.cpp).             *)
(*                                                                         *)
(* Threads call getInstance(), the logging entry points (the LOG_* macros, *)
(* persistent_logging, buffer_log) and the setters.  Every read of a       *)
(* shared field, every lock/unlock and every stream insertion (operator<<) *)
(* is one step, so the interleavings the code allows are the behaviours of *)
(* the model.                                                              *)
(***************************************************************************)
EXTENDS Integers, Sequences, FiniteSets, TLC

\* ------------------------------------------------------------------ bounds
NThreads == 2
MaxCalls == 2
MaxCallerCalls == 1
MaxConfigReads == 2
MaxCfgInt == 8

Threads == 1..NThreads
\* The thread that issues the logging calls of Spec and SpecConfig.
Caller == CHOOSE t \in Threads : \A u \in Threads : t <= u

\* ------------------------------------------------- enum LOG_LEVEL, LOG_TYPE
ALWAYS_LOG_THIS == -128
DISABLE_LOG == 0
LOG_LEVEL_FATAL == 1
LOG_LEVEL_ERROR == 2
LOG_LEVEL_WARNING == 3
LOG_LEVEL_INFO == 4
LOG_LEVEL_DEBUG == 5
LOG_LEVEL_TRACE == 6
LOG_LEVEL_BUFFER == 7
LOG_LEVEL_ALL == 8

LogLevel ==
  {ALWAYS_LOG_THIS, DISABLE_LOG, LOG_LEVEL_FATAL, LOG_LEVEL_ERROR,
   LOG_LEVEL_WARNING, LOG_LEVEL_INFO, LOG_LEVEL_DEBUG, LOG_LEVEL_TRACE,
   LOG_LEVEL_BUFFER, LOG_LEVEL_ALL}

NO_LOG == 1
CONSOLE == 2
FILE_LOG == 3

LogType == {NO_LOG, CONSOLE, FILE_LOG}

\* ---------------------------------------------------------------- tags
ALWAYS_TAG == "[ALWAYS]: "
FATAL_TAG == "[FATAL]: "
ERROR_TAG == "[ERROR]: "
WARNING_TAG == "[WARNING]: "
INFO_TAG == "[INFO]: "
DEBUG_TAG == "[DEBUG]: "
TRACE_TAG == "[TRACE]: "
EMPTY_STR == ""

getLogTypeTag(level) ==
  CASE level = LOG_LEVEL_FATAL -> FATAL_TAG
    [] level = LOG_LEVEL_ERROR -> ERROR_TAG
    [] level = LOG_LEVEL_WARNING -> WARNING_TAG
    [] level = LOG_LEVEL_INFO -> INFO_TAG
    [] level = LOG_LEVEL_DEBUG -> DEBUG_TAG
    [] level = LOG_LEVEL_TRACE -> TRACE_TAG
    [] OTHER -> EMPTY_STR

\* ------------------------------------------------------- call-site macros
\* The LOG_* macros that expand to getInstance()->user_log(<level>, ...).
UserLogMacros ==
  {"LOG_ALWAYS", "LOG_FATAL", "LOG_ERROR", "LOG_WARNING", "LOG_INFO",
   "LOG_DEBUG", "LOG_TRACE"}

\* Every logging entry point of the model.
Entries == UserLogMacros \cup {"LOG_BUFFER", "persistent_logging"}

\* The level argument each macro passes.
MacroLevel(e) ==
  CASE e = "LOG_ALWAYS" -> LOG_LEVEL_FATAL
    [] e = "LOG_FATAL" -> LOG_LEVEL_FATAL
    [] e = "LOG_ERROR" -> LOG_LEVEL_ERROR
    [] e = "LOG_WARNING" -> LOG_LEVEL_WARNING
    [] e = "LOG_INFO" -> LOG_LEVEL_INFO
    [] e = "LOG_DEBUG" -> LOG_LEVEL_DEBUG
    [] e = "LOG_TRACE" -> LOG_LEVEL_TRACE
    [] e = "LOG_BUFFER" -> LOG_LEVEL_BUFFER
    [] OTHER -> ALWAYS_LOG_THIS

\* ------------------------------------------------------------------ state
VARIABLES
  exited,        \* the process has terminated through exit(0)
  m_Instance,    \* static Logger* m_Instance: 0 is the null pointer
  ctorCount,     \* number of Logger objects constructed so far
  m_File,        \* per Logger object: is the ofstream open
  m_Mutex,       \* per Logger object: the thread owning m_Mutex, 0 when free
  m_LogLevel,    \* per Logger object: the threshold
  m_LogType,     \* per Logger object: the destination
  pc,            \* per thread: the statement it is about to execute
  self,          \* per thread: the Logger* its last getInstance() returned
  newLogger,     \* per thread: the object its pending `new Logger()` built
  entry,         \* per thread: the entry point of its current / last call
  callNo,        \* per thread: how many logging calls it has issued
  pos,           \* per thread: index of the next stream insertion of a write
  passed,        \* per thread: its current / last call got past the threshold
  fileSink,      \* the log file: the sequence of pieces inserted into it
  consoleSink,   \* standard output: the sequence of pieces inserted into it
  callsLeft,     \* calls the scenario may still issue
  conf,          \* the configuration source getLogLevel() reads
  glRet,         \* what the last getLogLevel() call did
  atCall,        \* per thread: <<threshold, destination>> in effect since
                 \* its call was issued, <<>> once a setter ran during it
  noLog,         \* per thread: the destination was NO_LOG during its call
  setterCalled   \* per Logger object: a setter has been called on it

instVars == <<m_Instance, ctorCount, m_File, m_Mutex, m_LogLevel, m_LogType>>
callVars == <<entry, callNo, pos, passed>>
sinkVars == <<fileSink, consoleSink>>
confVars == <<conf, glRet>>
histVars == <<atCall, noLog>>

vars ==
  <<exited, m_Instance, ctorCount, m_File, m_Mutex, m_LogLevel, m_LogType,
    pc, self, newLogger, entry, callNo, pos, passed, fileSink, consoleSink,
    callsLeft, conf, glRet, atCall, noLog, setterCalled>>

\* A piece is what one stream insertion (one operator<<, one printf) puts
\* into a sink: who made it, in which of its calls, and the text tokens.
Piece(t, n, s) == [who |-> t, n |-> n, str |-> s]

At(t, label) == ~exited /\ pc[t] = label

\* ------------------------------------------------------ Logger::Logger()
\* Mutant of ctorLogLevel: the constructor starts at LOG_LEVEL_ALL.
ctorLogLevel_all == LOG_LEVEL_ALL

\* m_LogLevel the constructor sets.
ctorLogLevel == LOG_LEVEL_TRACE

\* m_LogType the constructor sets.
ctorLogType == FILE_LOG

\* What enableAllLog() assigns to m_LogLevel.
enableAllLogLevel == LOG_LEVEL_ALL

\* What disableLog() assigns to m_LogLevel.
disableLogLevel == DISABLE_LOG

\* `if (m_Instance == 0)`: the unsynchronised test of the static pointer.
getInstance_test(t) ==
  /\ At(t, "getInstance")
  /\ pc' = [pc EXCEPT ![t] = IF m_Instance = 0 THEN "new_Logger"
                                               ELSE "getInstance_return"]
  /\ UNCHANGED <<exited, instVars, self, newLogger, callVars, sinkVars,
                 callsLeft, confVars, histVars, setterCalled>>

\* `new Logger()`: opens the file, sets the defaults, initialises the mutex.
\* m_Attr is never initialised with pthread_mutexattr_init, so either
\* pthread call may fail; the constructor then prints and calls exit(0).
Logger_ctor(t) ==
  /\ At(t, "new_Logger")
  /\ \E mutexInit \in {"ok", "attr_failed", "init_failed"} :
       IF mutexInit = "ok"
       THEN /\ ctorCount' = ctorCount + 1
            /\ m_File' = m_File @@ (ctorCount + 1 :> TRUE)
            /\ m_LogLevel' = m_LogLevel @@ (ctorCount + 1 :> ctorLogLevel)
            /\ m_LogType' = m_LogType @@ (ctorCount + 1 :> ctorLogType)
            /\ m_Mutex' = m_Mutex @@ (ctorCount + 1 :> 0)
            /\ setterCalled' = setterCalled @@ (ctorCount + 1 :> FALSE)
            /\ newLogger' = [newLogger EXCEPT ![t] = ctorCount + 1]
            /\ pc' = [pc EXCEPT ![t] = "getInstance_assign"]
            /\ UNCHANGED <<exited, consoleSink>>
       ELSE /\ exited' = TRUE
            /\ consoleSink' = Append(consoleSink,
                 Piece(t, 0,
                   IF mutexInit = "attr_failed"
                   THEN <<"Logger::Logger() -- Mutex attribute not initialized!!", "\n">>
                   ELSE <<"Logger::Logger() -- Mutex not initialized!!", "\n">>))
            /\ UNCHANGED <<ctorCount, m_File, m_LogLevel, m_LogType, m_Mutex,
                           setterCalled, newLogger, pc>>
  /\ UNCHANGED <<m_Instance, self, callVars, fileSink, callsLeft, confVars,
                 histVars>>

\* `m_Instance = new Logger();`: the store of the freshly built object.
getInstance_assign(t) ==
  /\ At(t, "getInstance_assign")
  /\ m_Instance' = newLogger[t]
  /\ pc' = [pc EXCEPT ![t] = "getInstance_return"]
  /\ UNCHANGED <<exited, ctorCount, m_File, m_Mutex, m_LogLevel, m_LogType,
                 self, newLogger, callVars, sinkVars, callsLeft, confVars,
                 histVars, setterCalled>>

\* `return m_Instance;`: the static pointer is read again.
getInstance_return(t) ==
  /\ At(t, "getInstance_return")
  /\ self' = [self EXCEPT ![t] = m_Instance]
  /\ pc' = [pc EXCEPT ![t] = "idle"]
  /\ UNCHANGED <<exited, instVars, newLogger, callVars, sinkVars, callsLeft,
                 confVars, histVars, setterCalled>>

\* A thread calls Logger::getInstance().
getInstance(t) ==
  /\ At(t, "idle")
  /\ callsLeft > 0
  /\ callsLeft' = callsLeft - 1
  /\ pc' = [pc EXCEPT ![t] = "getInstance"]
  /\ UNCHANGED <<exited, instVars, self, newLogger, callVars, sinkVars,
                 confVars, histVars, setterCalled>>

\* ---------------------------------------------------------------- setters
\* A setter ran: every call in flight on that object has been raced.
Raced(i, newType) ==
  /\ atCall' = [t \in Threads |->
                  IF pc[t] # "idle" /\ self[t] = i THEN <<>> ELSE atCall[t]]
  /\ noLog' = [t \in Threads |->
                 IF pc[t] # "idle" /\ self[t] = i /\ newType = NO_LOG
                 THEN TRUE ELSE noLog[t]]
  /\ setterCalled' = [setterCalled EXCEPT ![i] = TRUE]

\* getInstance()->setLogLevel(logLevel)
setLogLevel(logLevel) ==
  /\ ~exited
  /\ m_Instance # 0
  /\ m_LogLevel' = [m_LogLevel EXCEPT ![m_Instance] = logLevel]
  /\ Raced(m_Instance, m_LogType[m_Instance])
  /\ UNCHANGED <<exited, m_Instance, ctorCount, m_File, m_Mutex, m_LogType,
                 pc, self, newLogger, callVars, sinkVars, callsLeft,
                 confVars>>

\* getInstance()->setLogType(logType)
setLogType(logType) ==
  /\ ~exited
  /\ m_Instance # 0
  /\ m_LogType' = [m_LogType EXCEPT ![m_Instance] = logType]
  /\ Raced(m_Instance, logType)
  /\ UNCHANGED <<exited, m_Instance, ctorCount, m_File, m_Mutex, m_LogLevel,
                 pc, self, newLogger, callVars, sinkVars, callsLeft,
                 confVars>>

\* getInstance()->enableAllLog()
enableAllLog ==
  /\ ~exited
  /\ m_Instance # 0
  /\ m_LogLevel' = [m_LogLevel EXCEPT ![m_Instance] = enableAllLogLevel]
  /\ Raced(m_Instance, m_LogType[m_Instance])
  /\ UNCHANGED <<exited, m_Instance, ctorCount, m_File, m_Mutex, m_LogType,
                 pc, self, newLogger, callVars, sinkVars, callsLeft,
                 confVars>>

\* getInstance()->disableLog()
disableLog ==
  /\ ~exited
  /\ m_Instance # 0
  /\ m_LogLevel' = [m_LogLevel EXCEPT ![m_Instance] = disableLogLevel]
  /\ Raced(m_Instance, m_LogType[m_Instance])
  /\ UNCHANGED <<exited, m_Instance, ctorCount, m_File, m_Mutex, m_LogType,
                 pc, self, newLogger, callVars, sinkVars, callsLeft,
                 confVars>>

\* ------------------------------------------------- the process at startup
NoConf == [fault |-> "none", value |-> LOG_LEVEL_INFO]
NoRet == [n |-> 0, threw |-> FALSE, value |-> 0, conf |-> NoConf]

\* Before the first getInstance(): no Logger object exists.
InitInstance ==
  /\ exited = FALSE
  /\ m_Instance = 0
  /\ ctorCount = 0
  /\ m_File = <<>>
  /\ m_Mutex = <<>>
  /\ m_LogLevel = <<>>
  /\ m_LogType = <<>>
  /\ setterCalled = <<>>
  /\ pc = [t \in Threads |-> "idle"]
  /\ self = [t \in Threads |-> 0]
  /\ newLogger = [t \in Threads |-> 0]
  /\ entry = [t \in Threads |-> "LOG_INFO"]
  /\ callNo = [t \in Threads |-> 0]
  /\ pos = [t \in Threads |-> 0]
  /\ passed = [t \in Threads |-> FALSE]
  /\ fileSink = <<>>
  /\ consoleSink = <<>>
  /\ callsLeft = NThreads + MaxCalls
  /\ conf = NoConf
  /\ glRet = NoRet
  /\ atCall = [t \in Threads |-> <<>>]
  /\ noLog = [t \in Threads |-> FALSE]

NextInstance ==
  \/ \E t \in Threads : getInstance(t)
  \/ \E t \in Threads : getInstance_test(t)
  \/ \E t \in Threads : Logger_ctor(t)
  \/ \E t \in Threads : getInstance_assign(t)
  \/ \E t \in Threads : getInstance_return(t)
  \/ enableAllLog
  \/ disableLog

\* Threads racing through getInstance(), from a process with no instance.
SpecInstance == InitInstance /\ [][NextInstance]_vars

\* The state right after one successful getInstance(): one Logger object,
\* constructed by Logger::Logger(), no call in flight.
InitLogger ==
  /\ exited = FALSE
  /\ m_Instance = 1
  /\ ctorCount = 1
  /\ m_File = (1 :> TRUE)
  /\ m_Mutex = (1 :> 0)
  /\ m_LogLevel = (1 :> ctorLogLevel)
  /\ m_LogType = (1 :> ctorLogType)
  /\ setterCalled = (1 :> FALSE)
  /\ pc = [t \in Threads |-> "idle"]
  /\ self = [t \in Threads |-> 1]
  /\ newLogger = [t \in Threads |-> 0]
  /\ entry = [t \in Threads |-> "LOG_INFO"]
  /\ callNo = [t \in Threads |-> 0]
  /\ pos = [t \in Threads |-> 0]
  /\ passed = [t \in Threads |-> FALSE]
  /\ fileSink = <<>>
  /\ consoleSink = <<>>
  /\ glRet = NoRet
  /\ atCall = [t \in Threads |-> <<>>]
  /\ noLog = [t \in Threads |-> FALSE]

\* ------------------------------------------------------ the text of a line
\* utils::Utils::getCurrentTime(), as one token.
CurrentTime == "<time>"

\* The string user_log builds: tag, class name, "::", function name,
\* "() - ", text.
user_log_data(level) ==
  <<getLogTypeTag(level), "<className>", "::", "<func_name>", "() - ",
    "<text>">>

\* The string persistent_logging builds: tag, __PRETTY_FUNCTION__, text.
persistent_logging_data ==
  <<ALWAYS_TAG, "<__PRETTY_FUNCTION__>", "<text>">>

\* The string a call hands to logInto.
DataOf(e) ==
  IF e = "persistent_logging" THEN persistent_logging_data
  ELSE user_log_data(MacroLevel(e))

\* The insertions of logIntoFile / logOnConsole:
\* stream << getCurrentTime() << "  " << data << endl.
LinePieces(data) == << <<CurrentTime>>, <<"  ">>, data, <<"\n">> >>

\* Mutant of BufferPieces: buffer_log stamps its text like logIntoFile.
BufferPieces_stamped == << <<CurrentTime>>, <<"  ">>, <<"<text>">>, <<"\n">> >>

\* The insertions of buffer_log: stream << text << endl.
BufferPieces == << <<"<text>">>, <<"\n">> >>

\* ------------------------------------------------- a logging call is issued
\* A call site: Logger::getInstance()->entry(...).  An instance exists, so
\* getInstance() returns m_Instance.
Call(t, e) ==
  /\ At(t, "idle")
  /\ m_Instance # 0
  /\ callsLeft > 0
  /\ callsLeft' = callsLeft - 1
  /\ self' = [self EXCEPT ![t] = m_Instance]
  /\ entry' = [entry EXCEPT ![t] = e]
  /\ callNo' = [callNo EXCEPT ![t] = @ + 1]
  /\ pos' = [pos EXCEPT ![t] = 0]
  /\ passed' = [passed EXCEPT ![t] = FALSE]
  /\ atCall' = [atCall EXCEPT
                  ![t] = <<m_LogLevel[m_Instance], m_LogType[m_Instance]>>]
  /\ noLog' = [noLog EXCEPT ![t] = (m_LogType[m_Instance] = NO_LOG)]
  /\ pc' = [pc EXCEPT ![t] = IF e \in UserLogMacros THEN "user_log"
                             ELSE IF e = "LOG_BUFFER" THEN "buffer_log"
                             ELSE "persistent_logging"]
  /\ UNCHANGED <<exited, instVars, newLogger, sinkVars, confVars,
                 setterCalled>>

\* ---------------------------------------------------------------- user_log
\* Mutant of user_log_filtered: the comparison is off by one (<=).
user_log_filtered_offByOne(t) == m_LogLevel[self[t]] <= MacroLevel(entry[t])

\* `if (m_LogLevel < level) return;` of user_log.
user_log_filtered(t) == m_LogLevel[self[t]] < MacroLevel(entry[t])

user_log(t) ==
  /\ At(t, "user_log")
  /\ IF user_log_filtered(t)
     THEN /\ pc' = [pc EXCEPT ![t] = "idle"]
          /\ UNCHANGED passed
     ELSE /\ pc' = [pc EXCEPT ![t] = "logInto"]
          /\ passed' = [passed EXCEPT ![t] = TRUE]
  /\ UNCHANGED <<exited, instVars, self, newLogger, entry, callNo, pos,
                 sinkVars, callsLeft, confVars, histVars, setterCalled>>

\* persistent_logging: no threshold test, straight to logInto.
persistent_logging(t) ==
  /\ At(t, "persistent_logging")
  /\ pc' = [pc EXCEPT ![t] = "logInto"]
  /\ passed' = [passed EXCEPT ![t] = TRUE]
  /\ UNCHANGED <<exited, instVars, self, newLogger, entry, callNo, pos,
                 sinkVars, callsLeft, confVars, histVars, setterCalled>>

\* ----------------------------------------------------------------- logInto
\* `if (m_LogType == FILE_LOG)`: first read of the destination.  The `type`
\* parameter is ignored by the code; the member is read.
logInto(t) ==
  /\ At(t, "logInto")
  /\ pc' = [pc EXCEPT ![t] = IF m_LogType[self[t]] = FILE_LOG
                             THEN "logIntoFile" ELSE "logInto_else"]
  /\ UNCHANGED <<exited, instVars, self, newLogger, callVars, sinkVars,
                 callsLeft, confVars, histVars, setterCalled>>

\* `else if (m_LogType == CONSOLE)`: second read of the destination.
logInto_else(t) ==
  /\ At(t, "logInto_else")
  /\ IF m_LogType[self[t]] = CONSOLE
     THEN /\ pc' = [pc EXCEPT ![t] = "logOnConsole"]
          /\ pos' = [pos EXCEPT ![t] = 1]
     ELSE /\ pc' = [pc EXCEPT ![t] = "idle"]
          /\ UNCHANGED pos
  /\ UNCHANGED <<exited, instVars, self, newLogger, entry, callNo, passed,
                 sinkVars, callsLeft, confVars, histVars, setterCalled>>

\* Logger::lock(): pthread_mutex_lock blocks until the mutex is free.
lock(t) ==
  /\ m_Mutex[self[t]] = 0
  /\ m_Mutex' = [m_Mutex EXCEPT ![self[t]] = t]

\* Mutant of unlock: the mutex is not released.
unlock_keepsMutex(t) == UNCHANGED m_Mutex

\* Logger::unlock(): pthread_mutex_unlock.
unlock(t) ==
  m_Mutex' = [m_Mutex EXCEPT ![self[t]] = IF @ = t THEN 0 ELSE @]

\* One insertion into m_File; an ofstream that is not open drops it.
InsertFile(t, pieces) ==
  fileSink' = IF m_File[self[t]]
              THEN Append(fileSink, Piece(t, callNo[t], pieces[pos[t]]))
              ELSE fileSink

\* One insertion into std::cout.
InsertConsole(t, pieces) ==
  consoleSink' = Append(consoleSink, Piece(t, callNo[t], pieces[pos[t]]))

\* logIntoFile: lock();
logIntoFile_lock(t) ==
  /\ At(t, "logIntoFile")
  /\ lock(t)
  /\ pc' = [pc EXCEPT ![t] = "logIntoFile_write"]
  /\ pos' = [pos EXCEPT ![t] = 1]
  /\ UNCHANGED <<exited, m_Instance, ctorCount, m_File, m_LogLevel,
                 m_LogType, self, newLogger, entry, callNo, passed, sinkVars,
                 callsLeft, confVars, histVars, setterCalled>>

\* logIntoFile: m_File << getCurrentTime() << "  " << data << endl;
logIntoFile_write(t) ==
  /\ At(t, "logIntoFile_write")
  /\ InsertFile(t, LinePieces(DataOf(entry[t])))
  /\ IF pos[t] = Len(LinePieces(DataOf(entry[t])))
     THEN /\ pc' = [pc EXCEPT ![t] = "logIntoFile_unlock"]
          /\ UNCHANGED pos
     ELSE /\ pos' = [pos EXCEPT ![t] = @ + 1]
          /\ UNCHANGED pc
  /\ UNCHANGED <<exited, instVars, self, newLogger, entry, callNo, passed,
                 consoleSink, callsLeft, confVars, histVars, setterCalled>>

\* logIntoFile: unlock();
logIntoFile_unlock(t) ==
  /\ At(t, "logIntoFile_unlock")
  /\ unlock(t)
  /\ pc' = [pc EXCEPT ![t] = "idle"]
  /\ UNCHANGED <<exited, m_Instance, ctorCount, m_File, m_LogLevel,
                 m_LogType, self, newLogger, callVars, sinkVars, callsLeft,
                 confVars, histVars, setterCalled>>

\* logOnConsole: cout << getCurrentTime() << "  " << data << endl;
\* no lock is taken.
logOnConsole(t) ==
  /\ At(t, "logOnConsole")
  /\ InsertConsole(t, LinePieces(DataOf(entry[t])))
  /\ IF pos[t] = Len(LinePieces(DataOf(entry[t])))
     THEN /\ pc' = [pc EXCEPT ![t] = "idle"]
          /\ UNCHANGED pos
     ELSE /\ pos' = [pos EXCEPT ![t] = @ + 1]
          /\ UNCHANGED pc
  /\ UNCHANGED <<exited, instVars, self, newLogger, entry, callNo, passed,
                 fileSink, callsLeft, confVars, histVars, setterCalled>>

\* -------------------------------------------------------------- buffer_log
\* `if (m_LogLevel < level) return;` of buffer_log.
buffer_log_filtered(t) == m_LogLevel[self[t]] < MacroLevel(entry[t])

buffer_log(t) ==
  /\ At(t, "buffer_log")
  /\ IF buffer_log_filtered(t)
     THEN /\ pc' = [pc EXCEPT ![t] = "idle"]
          /\ UNCHANGED passed
     ELSE /\ pc' = [pc EXCEPT ![t] = "buffer_log_if"]
          /\ passed' = [passed EXCEPT ![t] = TRUE]
  /\ UNCHANGED <<exited, instVars, self, newLogger, entry, callNo, pos,
                 sinkVars, callsLeft, confVars, histVars, setterCalled>>

\* `if (m_LogType == FILE_LOG)` of buffer_log.
buffer_log_if(t) ==
  /\ At(t, "buffer_log_if")
  /\ pc' = [pc EXCEPT ![t] = IF m_LogType[self[t]] = FILE_LOG
                             THEN "buffer_log_lock" ELSE "buffer_log_else"]
  /\ UNCHANGED <<exited, instVars, self, newLogger, callVars, sinkVars,
                 callsLeft, confVars, histVars, setterCalled>>

\* `else if (m_LogType == CONSOLE)` of buffer_log.
buffer_log_else(t) ==
  /\ At(t, "buffer_log_else")
  /\ IF m_LogType[self[t]] = CONSOLE
     THEN /\ pc' = [pc EXCEPT ![t] = "buffer_log_console"]
          /\ pos' = [pos EXCEPT ![t] = 1]
     ELSE /\ pc' = [pc EXCEPT ![t] = "idle"]
          /\ UNCHANGED pos
  /\ UNCHANGED <<exited, instVars, self, newLogger, entry, callNo, passed,
                 sinkVars, callsLeft, confVars, histVars, setterCalled>>

\* buffer_log, file branch: lock();
buffer_log_lock(t) ==
  /\ At(t, "buffer_log_lock")
  /\ lock(t)
  /\ pc' = [pc EXCEPT ![t] = "buffer_log_file"]
  /\ pos' = [pos EXCEPT ![t] = 1]
  /\ UNCHANGED <<exited, m_Instance, ctorCount, m_File, m_LogLevel,
                 m_LogType, self, newLogger, entry, callNo, passed, sinkVars,
                 callsLeft, confVars, histVars, setterCalled>>

\* buffer_log, file branch: m_File << text << endl;
buffer_log_file(t) ==
  /\ At(t, "buffer_log_file")
  /\ InsertFile(t, BufferPieces)
  /\ IF pos[t] = Len(BufferPieces)
     THEN /\ pc' = [pc EXCEPT ![t] = "buffer_log_unlock"]
          /\ UNCHANGED pos
     ELSE /\ pos' = [pos EXCEPT ![t] = @ + 1]
          /\ UNCHANGED pc
  /\ UNCHANGED <<exited, instVars, self, newLogger, entry, callNo, passed,
                 consoleSink, callsLeft, confVars, histVars, setterCalled>>

\* buffer_log, file branch: unlock();
buffer_log_unlock(t) ==
  /\ At(t, "buffer_log_unlock")
  /\ unlock(t)
  /\ pc' = [pc EXCEPT ![t] = "idle"]
  /\ UNCHANGED <<exited, m_Instance, ctorCount, m_File, m_LogLevel,
                 m_LogType, self, newLogger, callVars, sinkVars, callsLeft,
                 confVars, histVars, setterCalled>>

\* buffer_log, console branch: cout << text << endl; no lock is taken.
buffer_log_console(t) ==
  /\ At(t, "buffer_log_console")
  /\ InsertConsole(t, BufferPieces)
  /\ IF pos[t] = Len(BufferPieces)
     THEN /\ pc' = [pc EXCEPT ![t] = "idle"]
          /\ UNCHANGED pos
     ELSE /\ pos' = [pos EXCEPT ![t] = @ + 1]
          /\ UNCHANGED pc
  /\ UNCHANGED <<exited, instVars, self, newLogger, entry, callNo, passed,
                 fileSink, callsLeft, confVars, histVars, setterCalled>>

\* One logging call from a single thread, with the setters running
\* concurrently from other threads.
Init ==
  /\ InitLogger
  /\ callsLeft = MaxCallerCalls
  /\ conf = NoConf

Next ==
  \/ \E e \in Entries : Call(Caller, e)
  \/ user_log(Caller)
  \/ persistent_logging(Caller)
  \/ logInto(Caller)
  \/ logInto_else(Caller)
  \/ logIntoFile_lock(Caller)
  \/ logIntoFile_write(Caller)
  \/ logIntoFile_unlock(Caller)
  \/ logOnConsole(Caller)
  \/ buffer_log(Caller)
  \/ buffer_log_if(Caller)
  \/ buffer_log_else(Caller)
  \/ buffer_log_lock(Caller)
  \/ buffer_log_file(Caller)
  \/ buffer_log_unlock(Caller)
  \/ buffer_log_console(Caller)
  \/ disableLog
  \/ enableAllLog
  \/ \E logLevel \in LogLevel : setLogLevel(logLevel)
  \/ \E logType \in LogType : setLogType(logType)

Spec == Init /\ [][Next]_vars

\* ------------------------------------------------------ concurrent logging
\* The entry points the concurrent scenario calls.
ConcEntries == {"LOG_INFO", "LOG_BUFFER"}

\* Several threads log concurrently; destination and threshold were fixed
\* at startup and no setter runs.
InitConc ==
  /\ exited = FALSE
  /\ m_Instance = 1
  /\ ctorCount = 1
  /\ m_File = (1 :> TRUE)
  /\ m_Mutex = (1 :> 0)
  /\ m_LogLevel \in {(1 :> ctorLogLevel), (1 :> enableAllLogLevel)}
  /\ m_LogType \in {(1 :> FILE_LOG), (1 :> CONSOLE)}
  /\ setterCalled = (1 :> TRUE)
  /\ pc = [t \in Threads |-> "idle"]
  /\ self = [t \in Threads |-> 1]
  /\ newLogger = [t \in Threads |-> 0]
  /\ entry = [t \in Threads |-> "LOG_INFO"]
  /\ callNo = [t \in Threads |-> 0]
  /\ pos = [t \in Threads |-> 0]
  /\ passed = [t \in Threads |-> FALSE]
  /\ fileSink = <<>>
  /\ consoleSink = <<>>
  /\ glRet = NoRet
  /\ atCall = [t \in Threads |-> <<>>]
  /\ noLog = [t \in Threads |-> FALSE]
  /\ callsLeft = MaxCalls
  /\ conf = NoConf

\* Every step a thread takes inside a logging call.
CallStep(t) ==
  \/ user_log(t)
  \/ persistent_logging(t)
  \/ logInto(t)
  \/ logInto_else(t)
  \/ logIntoFile_lock(t)
  \/ logIntoFile_write(t)
  \/ logIntoFile_unlock(t)
  \/ logOnConsole(t)
  \/ buffer_log(t)
  \/ buffer_log_if(t)
  \/ buffer_log_else(t)
  \/ buffer_log_lock(t)
  \/ buffer_log_file(t)
  \/ buffer_log_unlock(t)
  \/ buffer_log_console(t)

NextConc ==
  \/ \E t \in Threads, e \in ConcEntries : Call(t, e)
  \/ \E t \in Threads : user_log(t)
  \/ \E t \in Threads : logInto(t)
  \/ \E t \in Threads : logInto_else(t)
  \/ \E t \in Threads : logIntoFile_lock(t)
  \/ \E t \in Threads : logIntoFile_write(t)
  \/ \E t \in Threads : logIntoFile_unlock(t)
  \/ \E t \in Threads : logOnConsole(t)
  \/ \E t \in Threads : buffer_log(t)
  \/ \E t \in Threads : buffer_log_if(t)
  \/ \E t \in Threads : buffer_log_else(t)
  \/ \E t \in Threads : buffer_log_lock(t)
  \/ \E t \in Threads : buffer_log_file(t)
  \/ \E t \in Threads : buffer_log_unlock(t)
  \/ \E t \in Threads : buffer_log_console(t)

SpecConc == InitConc /\ [][NextConc]_vars

\* The same scenario under a fair scheduler: a thread that can take its
\* next step inside a call eventually takes it.
SpecFair == SpecConc /\ \A t \in Threads : WF_vars(CallStep(t))

\* ------------------------------------------------------------- getLogLevel
\* What the configuration source can be: unreadable in one of the ways the
\* try block can fail, or holding an integer under "logging_level".
ConfStates ==
  {[fault |-> f, value |-> 0] :
     f \in {"file_not_found", "parse_error", "path_error"}}
  \cup {[fault |-> "none", value |-> v] : v \in 0..MaxCfgInt}

\* (LOG_LEVEL)i: the value is kept when the enumeration can represent it
\* (its values span -128..127); other integers are truncated to that width.
CastToLogLevel(i) ==
  IF i \in -128..127 THEN i ELSE ((i + 128) % 256) - 128

\* The try block: getSettingsFilePath(), ConfigFile(path), read<int>, cast.
\* Yields the exception thrown, "none" when it returns.
getLogLevel_try(c) ==
  IF c.fault = "none"
  THEN [thrown |-> "none", value |-> CastToLogLevel(c.value)]
  ELSE [thrown |-> c.fault, value |-> 0]

\* What the handlers print to std::cout.
getLogLevel_print(thrown) ==
  IF thrown = "file_not_found" THEN <<"\n", "Unable to read..">>
  ELSE <<"External exception..">>

\* Mutant of getLogLevel_result: there is no `catch (...)`, so only
\* file_not_found is handled and every other exception leaves the function.
getLogLevel_result_noCatchAll(c) ==
  LET r == getLogLevel_try(c)
  IN IF r.thrown = "none" THEN [threw |-> FALSE, value |-> r.value]
     ELSE IF r.thrown = "file_not_found"
     THEN [threw |-> FALSE, value |-> LOG_LEVEL_INFO]
     ELSE [threw |-> TRUE, value |-> 0]

\* getLogLevel(): the try block, then `catch (file_not_found&)` and
\* `catch (...)`, both falling through to `return LOG_LEVEL_INFO`.
getLogLevel_result(c) ==
  LET r == getLogLevel_try(c)
  IN IF r.thrown = "none" THEN [threw |-> FALSE, value |-> r.value]
     ELSE IF r.thrown = "file_not_found"
     THEN [threw |-> FALSE, value |-> LOG_LEVEL_INFO]
     ELSE [threw |-> FALSE, value |-> LOG_LEVEL_INFO]

\* A call of the static Logger::getLogLevel().
getLogLevel ==
  /\ ~exited
  /\ callsLeft > 0
  /\ callsLeft' = callsLeft - 1
  /\ LET r == getLogLevel_result(conf)
     IN glRet' = [n |-> glRet.n + 1, threw |-> r.threw, value |-> r.value,
                  conf |-> conf]
  /\ consoleSink' =
       IF getLogLevel_try(conf).thrown = "none" THEN consoleSink
       ELSE Append(consoleSink,
                   Piece(Caller, 0,
                         getLogLevel_print(getLogLevel_try(conf).thrown)))
  /\ UNCHANGED <<exited, instVars, pc, self, newLogger, callVars, fileSink,
                 conf, histVars, setterCalled>>

\* The configuration source is changed from outside the process.
EditConfig(c) ==
  /\ ~exited
  /\ conf # c
  /\ conf' = c
  /\ UNCHANGED <<exited, instVars, pc, self, newLogger, callVars, sinkVars,
                 callsLeft, glRet, histVars, setterCalled>>

InitConfig ==
  /\ InitLogger
  /\ callsLeft = MaxConfigReads
  /\ conf \in ConfStates

NextConfig ==
  \/ getLogLevel
  \/ \E c \in ConfStates : EditConfig(c)
  \/ \E logLevel \in LogLevel : setLogLevel(logLevel)
  \/ \E logType \in LogType : setLogType(logType)

\* getLogLevel() against a changing configuration, with the setters.
SpecConfig == InitConfig /\ [][NextConfig]_vars

\* ================================================================ claims
\* The pieces thread t's call number n inserted into a sink, in order.
PiecesOf(sink, t, n) == SelectSeq(sink, LAMBDA p : p.who = t /\ p.n = n)

\* The text of a sequence of pieces.
Strs(ps) == [i \in 1..Len(ps) |-> ps[i].str]

NewLine == <<"\n">>

\* Exactly one line: some text, ended by the only newline.
OneLine(strs) ==
  /\ Len(strs) > 1
  /\ strs[Len(strs)] = NewLine
  /\ \A i \in 1..(Len(strs) - 1) : strs[i] # NewLine

\* Thread t's last logging call has returned.
Returned(t) == pc[t] = "idle" /\ callNo[t] > 0

\* No setter ran during t's last call, and a sink was active throughout.
Undisturbed(t) == atCall[t] # <<>> /\ atCall[t][2] \in {FILE_LOG, CONSOLE}

\* What t's last call put into the sink that was active / into the other.
InActive(t) ==
  Strs(PiecesOf(IF atCall[t][2] = FILE_LOG THEN fileSink ELSE consoleSink,
                t, callNo[t]))
InOther(t) ==
  Strs(PiecesOf(IF atCall[t][2] = FILE_LOG THEN consoleSink ELSE fileSink,
                t, callNo[t]))

C2_AlwaysCallWritesWhateverTheThreshold ==
  \A t \in Threads :
    (Returned(t) /\ entry[t] \in {"LOG_ALWAYS", "persistent_logging"}
       /\ Undisturbed(t)) =>
      /\ InOther(t) = <<>>
      /\ OneLine(InActive(t))

\* C7: a buffer call that passes the threshold test writes the raw text and
\* a newline, nothing else, to the active sink (file or console); a filtered
\* buffer call writes nothing.
C7_BufferCallWritesRawText ==
  \A t \in Threads :
    (Returned(t) /\ entry[t] = "LOG_BUFFER" /\ Undisturbed(t)) =>
      /\ InOther(t) = <<>>
      /\ IF LOG_LEVEL_BUFFER <= atCall[t][1]
         THEN InActive(t) = << <<"<text>">>, <<"\n">> >>
         ELSE InActive(t) = <<>>

\* C7 witness: a buffer call has written its raw text to the console.
C7_Witness ==
  /\ Returned(Caller)
  /\ entry[Caller] = "LOG_BUFFER"
  /\ atCall[Caller] = <<LOG_LEVEL_ALL, CONSOLE>>
  /\ Len(PiecesOf(consoleSink, Caller, callNo[Caller])) = 2

\* C10: with setLogType switching between console and file during a call
\* (never NO_LOG), a call that passed its threshold test writes its line to
\* exactly one of the two sinks.
C10_SwitchingDestinationLosesNoLine ==
  \A t \in Threads :
    (Returned(t) /\ passed[t] /\ ~noLog[t]) =>
      LET f == Strs(PiecesOf(fileSink, t, callNo[t]))
          c == Strs(PiecesOf(consoleSink, t, callNo[t]))
      IN \/ OneLine(f) /\ c = <<>>
         \/ OneLine(c) /\ f = <<>>

\* A thread is inserting into a sink.
Writing(t) ==
  pc[t] \in {"logIntoFile_write", "logOnConsole", "buffer_log_file",
             "buffer_log_console"}

\* C3: a thread writing to a sink, file or console, normal or buffer path,
\* holds the mutex, and no two threads write at the same time.
C3_WritesHoldTheMutex ==
  /\ \A t \in Threads : Writing(t) => m_Mutex[self[t]] = t
  /\ \A t, u \in Threads : (Writing(t) /\ Writing(u)) => t = u

\* The finished lines of a sink: each a run of pieces up to a newline.
RECURSIVE SplitLines(_)
SplitLines(s) ==
  IF \A i \in 1..Len(s) : s[i].str # NewLine THEN <<>>
  ELSE LET k == CHOOSE i \in 1..Len(s) :
                  /\ s[i].str = NewLine
                  /\ \A j \in 1..(i - 1) : s[j].str # NewLine
       IN <<SubSeq(s, 1, k)>> \o SplitLines(SubSeq(s, k + 1, Len(s)))

\* A line is the complete text of exactly one call.
WholeCall(line) ==
  /\ \A i \in 1..Len(line) : line[i].who = line[1].who /\ line[i].n = line[1].n
  /\ \E e \in Entries :
       Strs(line) = IF e = "LOG_BUFFER" THEN BufferPieces
                    ELSE LinePieces(DataOf(e))

\* C4: with every call permitted and the destination fixed, every line of
\* the sink is the complete text of one call, and once all calls have
\* returned the sinks hold one line per call.
C4_ConcurrentLinesAreWhole ==
  m_LogLevel[1] = enableAllLogLevel =>
    LET lines == SplitLines(fileSink) \o SplitLines(consoleSink)
    IN /\ \A k \in 1..Len(lines) : WholeCall(lines[k])
       /\ (\A t \in Threads : pc[t] = "idle") =>
            Len(lines) = MaxCalls - callsLeft

\* C5: the constructor runs at most once and every getInstance() call
\* returns the same instance.
C5_OneInstance ==
  /\ ctorCount <= 1
  /\ \A t, u \in Threads : (self[t] # 0 /\ self[u] # 0) => self[t] = self[u]

\* C6: a thread whose call has returned does not hold the mutex; under fair
\* scheduling no thread waits for the mutex forever (the only way out of
\* the wait is to acquire it) and no thread stays inside a call forever.
C6_MutexReleasedAndAcquired ==
  /\ [](\A t \in Threads : pc[t] = "idle" =>
          \A i \in DOMAIN m_Mutex : m_Mutex[i] # t)
  /\ \A t \in Threads : []<>(pc[t] \notin {"logIntoFile", "buffer_log_lock"})
  /\ \A t \in Threads : []<>(pc[t] = "idle")

\* C6 witness: a thread waits for the mutex another thread holds, after a
\* call through the file path has already returned.
C6_Witness ==
  \E t, u \in Threads :
    /\ t # u
    /\ pc[t] \in {"logIntoFile", "buffer_log_lock"}
    /\ m_Mutex[self[t]] = u
    /\ callNo[u] > 0

\* An instance a getInstance() call returned, on which no setter has run.
Fresh(t) == pc[t] = "idle" /\ self[t] # 0 /\ ~setterCalled[self[t]]

\* C8 as stated: after getInstance() and before any setter the file is open,
\* the destination is file and the threshold is the value enableAllLog()
\* sets, under which no leveled or buffer call is filtered.
C8_DefaultsAreEnableAll ==
  \A t \in Threads :
    Fresh(t) =>
      /\ m_File[self[t]]
      /\ m_LogType[self[t]] = FILE_LOG
      /\ m_LogLevel[self[t]] = enableAllLogLevel
      /\ \A e \in UserLogMacros \cup {"LOG_BUFFER"} :
           ~(m_LogLevel[self[t]] < MacroLevel(e))

\* C8 amended: after getInstance() and before any setter the file is open,
\* the destination is file and the threshold is LOG_LEVEL_TRACE, which is
\* below the value enableAllLog() sets: no leveled call is filtered, a
\* buffer call is.
C8_DefaultsAreTrace ==
  \A t \in Threads :
    Fresh(t) =>
      /\ m_File[self[t]]
      /\ m_LogType[self[t]] = FILE_LOG
      /\ m_LogLevel[self[t]] = LOG_LEVEL_TRACE
      /\ m_LogLevel[self[t]] < enableAllLogLevel
      /\ \A e \in UserLogMacros : ~(m_LogLevel[self[t]] < MacroLevel(e))
      /\ m_LogLevel[self[t]] < MacroLevel("LOG_BUFFER")

\* C8 witness: a getInstance() call has returned a freshly built instance.
C8_Witness ==
  \E t \in Threads : Fresh(t) /\ m_Instance = self[t]

====
